---- MODULE Spec2Model ----
(***************************************************************************)
(* A model of MEIO.py: one run of the script, top to bottom.               *)
(*                                                                         *)
(*   load_default_or_uploaded x5 -> sidebar parameters -> readiness check  *)
(*   -> join-key resolution -> safe_merge x4 -> compute button             *)
(*   -> method5_compute_ss -> result filter.                               *)
(*                                                                         *)
(* Data representation.  A table (pandas DataFrame) is a record            *)
(*   [loaded, cols, num, rows]                                             *)
(* cols is the column index (names, in column order), num[j] says whether  *)
(* column j has a numeric dtype, rows is the sequence of rows, each a      *)
(* sequence of cells aligned with cols.  loaded = FALSE is Python's None.  *)
(* Every cell is an integer:                                               *)
(*   - a numeric cell holds its value in tenths (40 is 4.0);               *)
(*   - an object cell holds an index into KeyStrings (its text);           *)
(*   - NaN is pandas' missing marker.                                      *)
(* Arithmetic is exact rational arithmetic in fixed point; the unit of     *)
(* every derived column is stated where it is computed.                    *)
(***************************************************************************)
EXTENDS Integers, Sequences, FiniteSets, TLC

VARIABLES
    pc,             \* position of the run in the script
    loadIdx,        \* how many load_default_or_uploaded calls have returned
    dataframes,     \* st.session_state.dataframes : role -> table
    avail,          \* the avail_* return values of the five loads
    params,         \* st.session_state.params
    join_key,       \* the resolved join key ("" is None)
    df_working,     \* the accumulated table
    merges,         \* number of safe_merge calls that returned in this run
    computeCalls,   \* number of method5_compute_ss calls in this run
    result_df,      \* the table method5_compute_ss returned
    result_view,    \* result_df[display_cols]
    search_term,    \* the text typed in the filter box
    min_ss_filter,  \* the threshold typed in the filter box (whole units)
    filtered,       \* the filtered view
    error           \* why the run ended early ("" when it did not)

vars == <<pc, loadIdx, dataframes, avail, params, join_key, df_working, merges,
          computeCalls, result_df, result_view, search_term, min_ss_filter,
          filtered, error>>

(***************************************************************************)
(* Bounds of the model.                                                    *)
(***************************************************************************)
\* Sales-history tables are drawn with 1..MaxSalesRows rows.
MaxSalesRows == 2
\* Search terms are drawn with 0..MaxTermLen characters.
MaxTermLen == 2

(***************************************************************************)
(* Values.                                                                 *)
(***************************************************************************)
\* The missing marker a left merge fills unmatched right-side cells with.
NaN == -999999

Max(a, b) == IF a >= b THEN a ELSE b

\* float arithmetic with the missing marker: any operand NaN gives NaN
Mul(a, b) == IF a = NaN \/ b = NaN THEN NaN ELSE a * b
Add(a, b) == IF a = NaN \/ b = NaN THEN NaN ELSE a + b

\* Series.abs()
Abs(a) == IF a = NaN THEN NaN ELSE IF a < 0 THEN -a ELSE a

\* x ** 0.5 of a value in tenths, result in whole units; NaN for a negative
\* or missing operand.  Lead times of the model are squares (0, 1.0, 4.0, 9.0).
Sqrt(x) ==
    IF x = NaN \/ x < 0 THEN NaN
    ELSE CHOOSE r \in 0..x : r * r * 10 = x

\* The text of object cells: KeyStrings[i] is the text of cell value i.
KeyStrings == << <<"A", "b">>, <<"b", "1">>, <<"a", ".">> >>

\* astype(str) of an object cell: the missing marker prints as "nan"
AsStr(c) == IF c = NaN THEN <<"n", "a", "n">> ELSE KeyStrings[c]

(***************************************************************************)
(* Tables.                                                                 *)
(***************************************************************************)
NoTable == [loaded |-> FALSE, cols |-> <<>>, num |-> <<>>, rows |-> <<>>]

Table(cols, num, rows) == [loaded |-> TRUE, cols |-> cols, num |-> num, rows |-> rows]

ColSet(t) == {t.cols[j] : j \in 1..Len(t.cols)}

\* position of column c in t (c is a column of t)
ColIdx(t, c) == CHOOSE j \in 1..Len(t.cols) : t.cols[j] = c

\* a sequence given as a function on 1..n, as a tuple
Seq1(f) == SubSeq(f, 1, Len(f))

\* df[c] : the cells of column c, one per row
Column(t, c) ==
    LET j == ColIdx(t, c)
    IN Seq1([i \in 1..Len(t.rows) |-> t.rows[i][j]])

\* df[c] = values : assign a new column (appended) or overwrite an existing one
SetColumn(t, c, isNum, values) ==
    IF c \in ColSet(t)
    THEN [t EXCEPT !.num[ColIdx(t, c)] = isNum,
                   !.rows = Seq1([i \in 1..Len(t.rows) |->
                                     [t.rows[i] EXCEPT ![ColIdx(t, c)] = values[i]]])]
    ELSE [t EXCEPT !.cols = Append(t.cols, c),
                   !.num = Append(t.num, isNum),
                   !.rows = Seq1([i \in 1..Len(t.rows) |-> Append(t.rows[i], values[i])])]

\* df[cols] : projection on a list of columns
Project(t, cs) ==
    LET idx == Seq1([j \in 1..Len(cs) |-> ColIdx(t, cs[j])])
    IN Table(cs,
             Seq1([j \in 1..Len(cs) |-> t.num[idx[j]]]),
             Seq1([i \in 1..Len(t.rows) |-> Seq1([j \in 1..Len(cs) |-> t.rows[i][idx[j]]])]))

\* df[mask] : the rows whose mask is TRUE, in order
RECURSIVE SelectRows(_, _, _)
SelectRows(rows, mask, i) ==
    IF i > Len(rows) THEN <<>>
    ELSE (IF mask[i] THEN <<rows[i]>> ELSE <<>>) \o SelectRows(rows, mask, i + 1)

Where(t, mask) == [t EXCEPT !.rows = SelectRows(t.rows, mask, 1)]

(***************************************************************************)
(* The five dataset roles and what a load can find for each of them.       *)
(***************************************************************************)
\* EXPECTED_FILES, in the order the five loads are made (lines 88-92)
Roles == <<"sales_history", "products_master", "product_lifecycle",
           "sales_forecast", "leadtime_history">>

RoleSet == {Roles[i] : i \in 1..Len(Roles)}

\* the first n rows of a table
FirstRows(t, n) == [t EXCEPT !.rows = SubSeq(t.rows, 1, IF n < Len(t.rows) THEN n ELSE Len(t.rows))]

\* Sales-history files.  Object cells are indexes into KeyStrings, numeric
\* cells are tenths.
SalesShapes ==
    { \* the plain case; a negative and a zero quantity
      Table(<<"material_shop", "units_sold">>, <<FALSE, TRUE>>,
            << <<1, -20>>, <<2, 0>>, <<3, 40>> >>),
      \* two accepted aliases, in the other order than POTENTIAL_KEYS
      Table(<<"SKU_Shop", "name", "Material_Shop", "units_sold">>,
            <<FALSE, FALSE, FALSE, TRUE>>,
            << <<3, 1, 1, 10>>, <<1, 2, 2, 40>>, <<2, 2, 3, 0>> >>),
      \* no accepted alias: the match is case-sensitive
      Table(<<"MATERIAL_SHOP", "units_sold">>, <<FALSE, TRUE>>,
            << <<1, 10>>, <<2, 40>>, <<3, 0>> >>),
      \* a column that already carries a merge suffix
      Table(<<"material_shop", "units_sold", "units_sold_pm">>, <<FALSE, TRUE, TRUE>>,
            << <<1, 40, 10>>, <<2, 10, 40>>, <<3, 0, 90>> >>),
      \* two of the canonical statistics are in the file
      Table(<<"material_shop", "name", "demand_std", "avg_lead_time">>,
            <<FALSE, FALSE, TRUE, TRUE>>,
            << <<1, 1, 100, 40>>, <<2, 2, 0, 10>>, <<3, 3, 10, 90>> >>),
      \* no numeric column, and a row whose key is missing
      Table(<<"material_shop", "name">>, <<FALSE, FALSE>>,
            << <<2, 1>>, <<NaN, 3>>, <<3, 2>> >>) }

SalesTables == {FirstRows(t, n) : t \in SalesShapes, n \in 1..MaxSalesRows}

ForecastTables ==
    { \* shares units_sold with sales history, brings avg_monthly_demand;
      \* has no row for key 2
      Table(<<"material_shop", "units_sold", "avg_monthly_demand">>, <<FALSE, TRUE, TRUE>>,
            << <<1, 10, 40>>, <<3, 40, 10>> >>),
      \* two rows carry key 1; no numeric column
      Table(<<"material_shop", "Material_Shop", "fcst_note">>, <<FALSE, FALSE, FALSE>>,
            << <<1, 1, 1>>, <<1, 2, 3>>, <<2, 1, 2>> >>) }

MasterTables ==
    { Table(<<"material_shop", "name", "units_sold">>, <<FALSE, FALSE, TRUE>>,
            << <<1, 3, 90>>, <<2, 3, 10>> >>),
      \* no numeric column
      Table(<<"Material_Shop", "material_shop", "name">>, <<FALSE, FALSE, FALSE>>,
            << <<1, 1, 3>>, <<2, 2, 1>> >>) }

LifecycleTables ==
    { Table(<<"material_shop", "Material_Shop", "stage">>, <<FALSE, FALSE, FALSE>>,
            << <<1, 1, 2>>, <<2, 2, 1>> >>),
      \* brings demand_std, for key 1 only
      Table(<<"material_shop", "demand_std">>, <<FALSE, TRUE>>,
            << <<1, 40>> >>) }

LeadtimeTables ==
    { Table(<<"material_shop", "Material_Shop", "avg_lead_time", "lead_time_std">>,
            <<FALSE, FALSE, TRUE, TRUE>>,
            << <<1, 1, 40, 10>>, <<2, 2, 10, 0>> >>),
      \* no canonical column, no numeric column; two rows carry key 2
      Table(<<"material_shop", "supplier">>, <<FALSE, FALSE>>,
            << <<1, 2>>, <<2, 1>>, <<2, 3>> >>) }

\* what pd.read_csv can return for a role (an upload or the baseline file)
Sources(role) ==
    CASE role = "sales_history"     -> SalesTables
      [] role = "products_master"   -> MasterTables
      [] role = "product_lifecycle" -> LifecycleTables
      [] role = "sales_forecast"    -> ForecastTables
      [] role = "leadtime_history"  -> LeadtimeTables

(***************************************************************************)
(* Session state at the start of the script (lines 28-32).                 *)
(***************************************************************************)
NoParams == [SL |-> 0, min_ss |-> 0, max_ss_mult |-> 0,
             demand_var_factor |-> 0, lt_var_factor |-> 0]

Init ==
    /\ pc = "load"
    /\ loadIdx = 0
    /\ dataframes = [r \in RoleSet |-> NoTable]
    /\ avail = [r \in RoleSet |-> FALSE]
    /\ params = NoParams
    /\ join_key = ""
    /\ df_working = NoTable
    /\ merges = 0
    /\ computeCalls = 0
    /\ result_df = NoTable
    /\ result_view = NoTable
    /\ search_term = <<>>
    /\ min_ss_filter = 0
    /\ filtered = NoTable
    /\ error = ""

(***************************************************************************)
(* load_default_or_uploaded (lines 41-84), called once per role.           *)
(* df is the uploaded file, else the baseline file, else None (nothing      *)
(* there, or pd.read_csv raised and the error was shown in the sidebar).    *)
(***************************************************************************)
load_default_or_uploaded ==
    /\ pc = "load"
    /\ loadIdx < Len(Roles)
    /\ LET label_key == Roles[loadIdx + 1] IN
       \E df \in Sources(label_key) \cup {NoTable} :
          /\ dataframes' = [dataframes EXCEPT ![label_key] = df]
          /\ avail' = [avail EXCEPT ![label_key] = df.loaded]
    /\ loadIdx' = loadIdx + 1
    /\ pc' = IF loadIdx + 1 = Len(Roles) THEN "params" ELSE "load"
    /\ UNCHANGED <<params, join_key, df_working, merges, computeCalls, result_df,
                   result_view, search_term, min_ss_filter, filtered, error>>

(***************************************************************************)
(* Sidebar parameters (lines 106-132).  SL is the slider's whole percent    *)
(* (the code stores SL / 100), min_ss whole units, the multiplier and the   *)
(* two variability factors in tenths.                                       *)
(***************************************************************************)
SLMin == 80
SLMax == 99

ParamSets ==
    [SL : {SLMin, 95, SLMax}, min_ss : {0, 3}, max_ss_mult : {10, 40},
     demand_var_factor : {10, 30}, lt_var_factor : {10}]

SetParams ==
    /\ pc = "params"
    /\ \E p \in ParamSets : params' = p
    /\ pc' = "ready"
    /\ UNCHANGED <<loadIdx, dataframes, avail, join_key, df_working, merges,
                   computeCalls, result_df, result_view, search_term,
                   min_ss_filter, filtered, error>>

(***************************************************************************)
(* The readiness check (lines 94-100 and 225-230).                         *)
(***************************************************************************)
\* the readiness flag with "or" in place of "and"
all_available_any == \E r \in RoleSet : avail[r]

all_available ==
    /\ avail["sales_history"]
    /\ avail["products_master"]
    /\ avail["product_lifecycle"]
    /\ avail["sales_forecast"]
    /\ avail["leadtime_history"]

ReadinessCheck ==
    /\ pc = "ready"
    /\ IF all_available
       THEN pc' = "resolve" /\ error' = error
       ELSE pc' = "stopped" /\ error' = "IncompleteDatasetSet"
    /\ UNCHANGED <<loadIdx, dataframes, avail, params, join_key, df_working, merges,
                   computeCalls, result_df, result_view, search_term,
                   min_ss_filter, filtered>>

(***************************************************************************)
(* Join-key resolution (lines 242-267).                                    *)
(***************************************************************************)
POTENTIAL_KEYS == <<"material_shop", "Material_Shop", "materialShop", "SKU_Shop">>

\* the for loop without its break: the last candidate present wins
RECURSIVE FindKeyNoBreak(_, _)
FindKeyNoBreak(columns, i) ==
    IF i > Len(POTENTIAL_KEYS) THEN ""
    ELSE LET later == FindKeyNoBreak(columns, i + 1)
         IN IF later # "" THEN later
            ELSE IF POTENTIAL_KEYS[i] \in columns THEN POTENTIAL_KEYS[i] ELSE ""

\* the for loop of lines 252-255, from candidate i on; "" is None
RECURSIVE FindKey(_, _)
FindKey(columns, i) ==
    IF i > Len(POTENTIAL_KEYS) THEN ""
    ELSE IF POTENTIAL_KEYS[i] \in columns THEN POTENTIAL_KEYS[i]
    ELSE FindKey(columns, i + 1)

ResolveKey ==
    /\ pc = "resolve"
    /\ LET sales_hist == dataframes["sales_history"]
           k == FindKey(ColSet(sales_hist), 1)
       IN /\ join_key' = k
          /\ IF k = ""
             THEN /\ pc' = "stopped"
                  /\ error' = "MissingJoinKey"
                  /\ df_working' = df_working
             ELSE /\ pc' = "merge"
                  /\ error' = error
                  /\ df_working' = sales_hist
    /\ UNCHANGED <<loadIdx, dataframes, avail, params, merges, computeCalls,
                   result_df, result_view, search_term, min_ss_filter, filtered>>

(***************************************************************************)
(* safe_merge (lines 269-274) and pandas' left merge.                      *)
(***************************************************************************)
\* right.rename(columns = {c: c + suffix for c in common_cols})
Rename(t, names, suffix) ==
    [t EXCEPT !.cols = [j \in 1..Len(t.cols) |->
                           IF t.cols[j] \in names THEN t.cols[j] \o suffix ELSE t.cols[j]]]

\* the positions of the columns of t other than key, in column order
NonKeyIdx(t, key) == SelectSeq([j \in 1..Len(t.cols) |-> j], LAMBDA j : t.cols[j] # key)

\* the rows of a left merge, from left row i on: a left row is followed by the
\* non-key cells of every right row with its key value, in the right table's
\* order, or by missing markers when there is none
RECURSIVE JoinRows(_, _, _, _, _, _)
JoinRows(lrows, lk, rrows, rk, ridx, i) ==
    IF i > Len(lrows) THEN <<>>
    ELSE LET m == SelectSeq(rrows, LAMBDA r : r[rk] = lrows[i][lk])
             here == IF m = <<>>
                     THEN << lrows[i] \o [j \in 1..Len(ridx) |-> NaN] >>
                     ELSE [n \in 1..Len(m) |->
                             lrows[i] \o [j \in 1..Len(ridx) |-> m[n][ridx[j]]]]
         IN here \o JoinRows(lrows, lk, rrows, rk, ridx, i + 1)

\* left.merge(right, on = key, how = "left"); key is a column of both.
\* Columns other than key that both sides carry get pandas' default
\* suffixes, _x on the left and _y on the right.
LeftMerge(left, right, key) ==
    LET overlap == (ColSet(left) \cap ColSet(right)) \ {key}
        l == Rename(left, overlap, "_x")
        r == Rename(right, overlap, "_y")
        ridx == NonKeyIdx(r, key)
    IN Table(l.cols \o [j \in 1..Len(ridx) |-> r.cols[ridx[j]]],
             l.num \o [j \in 1..Len(ridx) |-> r.num[ridx[j]]],
             JoinRows(l.rows, ColIdx(l, key), r.rows, ColIdx(r, key), ridx, 1))

safe_merge(left, right, key, suffix) ==
    LET common_cols == (ColSet(left) \cap ColSet(right)) \ {key}
        right_renamed == Rename(right, common_cols, suffix)
    IN LeftMerge(left, right_renamed, key)

\* the four calls of lines 276-279, in order
MergeOrder ==
    << [role |-> "sales_forecast",    suffix |-> "_fcst"],
       [role |-> "products_master",   suffix |-> "_pm"],
       [role |-> "product_lifecycle", suffix |-> "_pl"],
       [role |-> "leadtime_history",  suffix |-> "_lt"] >>

\* One of the four calls.  pandas raises KeyError when the right table has
\* no column named key; nothing catches it and the run dies there.
SafeMergeStep ==
    /\ pc = "merge"
    /\ merges < Len(MergeOrder)
    /\ LET step == MergeOrder[merges + 1]
           right == dataframes[step.role]
       IN IF right.loaded /\ join_key \in ColSet(right)
          THEN /\ df_working' = safe_merge(df_working, right, join_key, step.suffix)
               /\ merges' = merges + 1
               /\ pc' = IF merges + 1 = Len(MergeOrder) THEN "button" ELSE "merge"
               /\ error' = error
          ELSE /\ pc' = "crashed"
               /\ error' = "KeyError"
               /\ UNCHANGED <<df_working, merges>>
    /\ UNCHANGED <<loadIdx, dataframes, avail, params, join_key, computeCalls,
                   result_df, result_view, search_term, min_ss_filter, filtered>>

(***************************************************************************)
(* method5_compute_ss (lines 137-204).                                     *)
(* Units: the four statistics are in tenths, risk_index in hundredths,      *)
(* z_approx in 1/ZDen, SS_raw and SS_optimal in 1/SSUnit.                   *)
(***************************************************************************)
CANONICAL == <<"avg_monthly_demand", "demand_std", "avg_lead_time", "lead_time_std">>

\* z_approx = 0.85 + (sl - 0.8) * (2.33 - 0.85) / (0.99 - 0.8), in hundredths
ZLow == 85
ZHigh == 233

\* with sl = SL / 100 the value of line 194 is
\*   (ZLow * (SLMax - SLMin) + (SL - SLMin) * (ZHigh - ZLow)) / ZDen
ZDen == 100 * (SLMax - SLMin)

SSUnit == 100 * ZDen

\* the interpolation with its two end points swapped
z_approx_swapped(SL) == Max(0, ZHigh * (SLMax - SLMin) - (SL - SLMin) * (ZHigh - ZLow))

\* lines 194-195, in 1/ZDen
z_approx(SL) == Max(0, ZLow * (SLMax - SLMin) + (SL - SLMin) * (ZHigh - ZLow))

\* Series.clip(lower = scalar, upper = Series), row by row: the lower bound is
\* applied first, then the upper bound; a missing value stays missing and a
\* missing threshold does not clip.
Clip(x, lower, upper) ==
    LET lo == IF x = NaN THEN NaN ELSE IF x >= lower THEN x ELSE lower
    IN IF lo = NaN THEN NaN
       ELSE IF upper = NaN THEN lo
       ELSE IF lo <= upper THEN lo ELSE upper

\* df.select_dtypes(include = "number").columns
NumericCols(t) == SelectSeq(t.cols, LAMBDA c : t.num[ColIdx(t, c)])

\* lines 168-174
WithDemand(df) ==
    IF "avg_monthly_demand" \notin ColSet(df)
    THEN LET numeric_cols == NumericCols(df)
         IN IF Len(numeric_cols) > 0
            THEN SetColumn(df, "avg_monthly_demand", TRUE,
                           LET first == Column(df, numeric_cols[1])
                           IN Seq1([i \in 1..Len(df.rows) |-> Abs(first[i])]))
            ELSE SetColumn(df, "avg_monthly_demand", TRUE, Seq1([i \in 1..Len(df.rows) |-> 0]))
    ELSE df

\* demand_std recomputed whether or not the column is there
WithDemandStdAlways(df) ==
    LET amd == Column(df, "avg_monthly_demand")
    IN SetColumn(df, "demand_std", TRUE,
                 Seq1([i \in 1..Len(df.rows) |->
                          IF amd[i] = NaN THEN NaN ELSE (amd[i] * 5) \div 10]))

\* lines 176-177: 0.5 * avg_monthly_demand
WithDemandStd(df) ==
    IF "demand_std" \notin ColSet(df)
    THEN LET amd == Column(df, "avg_monthly_demand")
         IN SetColumn(df, "demand_std", TRUE,
                      Seq1([i \in 1..Len(df.rows) |->
                               IF amd[i] = NaN THEN NaN ELSE (amd[i] * 5) \div 10]))
    ELSE df

\* lines 179-180: 1.0
WithLeadTime(df) ==
    IF "avg_lead_time" \notin ColSet(df)
    THEN SetColumn(df, "avg_lead_time", TRUE, Seq1([i \in 1..Len(df.rows) |-> 10]))
    ELSE df

\* lines 182-183: 0.3 * avg_lead_time
WithLeadTimeStd(df) ==
    IF "lead_time_std" \notin ColSet(df)
    THEN LET alt == Column(df, "avg_lead_time")
         IN SetColumn(df, "lead_time_std", TRUE,
                      Seq1([i \in 1..Len(df.rows) |->
                               IF alt[i] = NaN THEN NaN ELSE (alt[i] * 3) \div 10]))
    ELSE df

\* lines 187-190
RiskIndex(demand_std, lead_time_std, p) ==
    Add(Mul(demand_std, p.demand_var_factor), Mul(lead_time_std, p.lt_var_factor))

\* line 197
SSRaw(risk_index, avg_lead_time, p) ==
    Mul(Mul(z_approx(p.SL), risk_index), Sqrt(avg_lead_time))

\* lines 200-202
SSOptimal(ss_raw, avg_monthly_demand, p) ==
    Clip(ss_raw, p.min_ss * SSUnit,
         IF avg_monthly_demand = NaN THEN NaN
         ELSE p.max_ss_mult * avg_monthly_demand * ZDen)

method5_compute_ss(merged_df, p) ==
    LET d4 == WithLeadTimeStd(WithLeadTime(WithDemandStd(WithDemand(merged_df))))
        n == Len(d4.rows)
        amd == Column(d4, "avg_monthly_demand")
        ds == Column(d4, "demand_std")
        alt == Column(d4, "avg_lead_time")
        ls == Column(d4, "lead_time_std")
        risk == Seq1([i \in 1..n |-> RiskIndex(ds[i], ls[i], p)])
        raw == Seq1([i \in 1..n |-> SSRaw(risk[i], alt[i], p)])
        opt == Seq1([i \in 1..n |-> SSOptimal(raw[i], amd[i], p)])
    IN SetColumn(SetColumn(SetColumn(d4, "risk_index", TRUE, risk),
                           "SS_raw", TRUE, raw),
                 "SS_optimal", TRUE, opt)

(***************************************************************************)
(* The compute button (lines 290-292 and 343).                             *)
(***************************************************************************)
Button ==
    /\ pc = "button"
    /\ \E compute_btn \in BOOLEAN : pc' = IF compute_btn THEN "compute" ELSE "idle"
    /\ UNCHANGED <<loadIdx, dataframes, avail, params, join_key, df_working, merges,
                   computeCalls, result_df, result_view, search_term,
                   min_ss_filter, filtered, error>>

\* lines 293-309
Compute ==
    /\ pc = "compute"
    /\ LET r == method5_compute_ss(df_working, params)
           display_cols == <<join_key, "SS_optimal">>
                           \o SelectSeq(CANONICAL, LAMBDA c : c \in ColSet(r))
       IN /\ result_df' = r
          /\ result_view' = Project(r, display_cols)
    /\ computeCalls' = computeCalls + 1
    /\ pc' = "filter"
    /\ UNCHANGED <<loadIdx, dataframes, avail, params, join_key, df_working, merges,
                   search_term, min_ss_filter, filtered, error>>

(***************************************************************************)
(* The result filter (lines 317-330).                                      *)
(***************************************************************************)
TermChars == {"a", ".", "("}

\* what can be typed in the filter box
Terms == UNION {[1..n -> TermChars] : n \in 0..MaxTermLen}

\* re.IGNORECASE on the letters of the model
Lower(c) == IF c = "A" THEN "a" ELSE c

\* re.compile(term): an opening parenthesis that is never closed is an error
\* ("missing ), unterminated subpattern"); the other characters of TermChars
\* compile
Compiles(term) == \A j \in 1..Len(term) : term[j] # "("

\* Series.str.contains(term, case = False), whose regex parameter defaults to
\* True: re.search of the pattern in the text.  "." matches any character.
StrContains(text, term) ==
    \E off \in 0..(Len(text) - Len(term)) :
        \A j \in 1..Len(term) :
            term[j] = "." \/ Lower(term[j]) = Lower(text[off + j])

\* what can be typed as the threshold (whole units)
Thresholds == {0, 1}

\* SS_optimal >= min_ss_filter: a comparison with a missing value is False
GeThreshold(ss, threshold) == ss # NaN /\ ss >= threshold * SSUnit

Filter ==
    /\ pc = "filter"
    /\ \E term \in Terms, threshold \in Thresholds :
          /\ search_term' = term
          /\ min_ss_filter' = threshold
          /\ IF term # <<>> /\ ~Compiles(term)
             THEN /\ pc' = "crashed"
                  /\ error' = "re.error"
                  /\ filtered' = filtered
             ELSE LET keys == Column(result_view, join_key)
                      byTerm == IF term # <<>>
                                THEN Where(result_view,
                                           [i \in 1..Len(result_view.rows) |->
                                               StrContains(AsStr(keys[i]), term)])
                                ELSE result_view
                  IN /\ filtered' = Where(byTerm,
                                          [i \in 1..Len(byTerm.rows) |->
                                              GeThreshold(Column(byTerm, "SS_optimal")[i],
                                                          threshold)])
                     /\ pc' = "done"
                     /\ error' = error
    /\ UNCHANGED <<loadIdx, dataframes, avail, params, join_key, df_working, merges,
                   computeCalls, result_df, result_view>>

(***************************************************************************)
(* The run.                                                                *)
(***************************************************************************)
Next ==
    \/ load_default_or_uploaded
    \/ SetParams
    \/ ReadinessCheck
    \/ ResolveKey
    \/ SafeMergeStep
    \/ Button
    \/ Compute
    \/ Filter

Spec == Init /\ [][Next]_vars

(***************************************************************************)
(* Properties.                                                             *)
(***************************************************************************)
AllLoaded == \A r \in RoleSet : dataframes[r].loaded

NoOutput ==
    /\ computeCalls = 0
    /\ ~result_df.loaded
    /\ ~result_view.loaded
    /\ ~filtered.loaded

\* the run is past the readiness check
PastReadiness == pc \notin {"load", "params", "ready"}

\* C5: if any of the five roles is unpopulated after loading, the run stops at
\* the readiness check: no key is resolved, no merge and no call of
\* method5_compute_ss happens and no result, not even a partial one, exists;
\* conversely the join is reached only when all five roles hold a table.
C5_ReadinessGate ==
    /\ (PastReadiness /\ ~AllLoaded) =>
          /\ pc = "stopped"
          /\ error = "IncompleteDatasetSet"
          /\ join_key = ""
          /\ merges = 0
          /\ ~df_working.loaded
          /\ NoOutput
    /\ (pc \in {"resolve", "merge", "button", "compute", "filter", "done", "idle"}
          \/ merges > 0 \/ join_key # "" \/ df_working.loaded) => AllLoaded

\* a run stopped by the readiness check although sales history was loaded
C5_Witness ==
    /\ pc = "stopped"
    /\ error = "IncompleteDatasetSet"
    /\ dataframes["sales_history"].loaded
    /\ dataframes["products_master"].loaded
    /\ ~dataframes["leadtime_history"].loaded

\* C6: the resolver selects exactly one key, the first entry of POTENTIAL_KEYS
\* that is a column of sales_history, even when several aliases are columns;
\* when none is, the run halts with the missing-key error before any merge
\* and without a result.
C6_KeyResolution ==
    (PastReadiness /\ pc # "resolve" /\ AllLoaded) =>
        LET columns == ColSet(dataframes["sales_history"])
            present == {i \in 1..Len(POTENTIAL_KEYS) : POTENTIAL_KEYS[i] \in columns}
        IN IF present # {}
           THEN /\ \E i \in present :
                      /\ join_key = POTENTIAL_KEYS[i]
                      /\ \A j \in present : i <= j
                /\ error # "MissingJoinKey"
           ELSE /\ pc = "stopped"
                /\ error = "MissingJoinKey"
                /\ join_key = ""
                /\ merges = 0
                /\ ~df_working.loaded
                /\ NoOutput

\* sales history carries two aliases, the later one first in column order
C6_Witness ==
    /\ pc = "merge"
    /\ join_key = "Material_Shop"
    /\ {"SKU_Shop", "Material_Shop"} \subseteq ColSet(dataframes["sales_history"])

\* C8: each of the four canonical measures is synthesized only if its column
\* is absent from the working table, independently of the other three, and a
\* present column is used unchanged: absent avg_monthly_demand is the
\* absolute value of the first numeric column in column order (0 when there
\* is none), absent demand_std is 0.5 * avg_monthly_demand, absent
\* avg_lead_time is 1.0, absent lead_time_std is 0.3 * avg_lead_time.
C8_Fallbacks ==
    pc = "filter" =>
        LET w == df_working
            r == result_df
            n == Len(w.rows)
            amd == Column(r, "avg_monthly_demand")
            ds == Column(r, "demand_std")
            alt == Column(r, "avg_lead_time")
            ls == Column(r, "lead_time_std")
            numeric == {j \in 1..Len(w.cols) : w.num[j]}
        IN /\ Len(r.rows) = n
           /\ \A c \in ColSet(w) : c \in ColSet(r) /\ Column(r, c) = Column(w, c)
           /\ "avg_monthly_demand" \notin ColSet(w) =>
                 IF numeric = {}
                 THEN \A i \in 1..n : amd[i] = 0
                 ELSE LET j == CHOOSE j \in numeric : \A k \in numeric : j <= k
                      IN \A i \in 1..n :
                            \/ w.rows[i][j] = NaN /\ amd[i] = NaN
                            \/ w.rows[i][j] # NaN /\ amd[i] >= 0
                               /\ amd[i] \in {w.rows[i][j], 0 - w.rows[i][j]}
           /\ "demand_std" \notin ColSet(w) =>
                 \A i \in 1..n : \/ amd[i] = NaN /\ ds[i] = NaN
                                 \/ amd[i] # NaN /\ 2 * ds[i] = amd[i]
           /\ "avg_lead_time" \notin ColSet(w) => \A i \in 1..n : alt[i] = 10
           /\ "lead_time_std" \notin ColSet(w) =>
                 \A i \in 1..n : \/ alt[i] = NaN /\ ls[i] = NaN
                                 \/ alt[i] # NaN /\ 10 * ls[i] = 3 * alt[i]

\* demand_std comes from the data while avg_monthly_demand (from a numeric
\* column holding a negative quantity) and both lead-time measures are
\* synthesized
C8_Witness ==
    /\ pc = "filter"
    /\ "demand_std" \in ColSet(df_working)
    /\ "avg_monthly_demand" \notin ColSet(df_working)
    /\ "avg_lead_time" \notin ColSet(df_working)
    /\ "lead_time_std" \notin ColSet(df_working)
    /\ \E i \in 1..Len(result_df.rows) :
          /\ Column(result_df, "demand_std")[i] \notin {NaN, 0}
          /\ 2 * Column(result_df, "demand_std")[i]
                # Column(result_df, "avg_monthly_demand")[i]

\* SS_optimal of a row with these statistics, had the service level been SL
SSAt(risk_index, avg_lead_time, avg_monthly_demand, SL) ==
    LET p == [params EXCEPT !.SL = SL]
    IN SSOptimal(SSRaw(risk_index, avg_lead_time, p), avg_monthly_demand, p)

\* a row whose risk_index and avg_lead_time are strictly positive
Positive(risk_index, avg_lead_time) ==
    /\ risk_index # NaN /\ risk_index > 0
    /\ avg_lead_time # NaN /\ avg_lead_time > 0

C1_ClipBounds ==
    pc = "filter" =>
        LET amd == Column(result_df, "avg_monthly_demand")
            raw == Column(result_df, "SS_raw")
            opt == Column(result_df, "SS_optimal")
            lower == params.min_ss * SSUnit
        IN \A i \in 1..Len(result_df.rows) :
              (amd[i] # NaN /\ amd[i] >= 0 /\ raw[i] # NaN) =>
                 LET upper == params.max_ss_mult * amd[i] * ZDen
                 IN IF upper >= lower
                    THEN lower <= opt[i] /\ opt[i] <= upper
                    ELSE opt[i] = lower

\* C2: after the four merges the working table has as many rows as
\* sales_history, whatever the four auxiliary tables hold.
C2_JoinCardinality ==
    merges = Len(MergeOrder) =>
        Len(df_working.rows) = Len(dataframes["sales_history"].rows)

\* C3: every row of the result has a finite SS_optimal, never the missing
\* marker, also when a canonical column carries the missing marker of an
\* unmatched key.
C3_FiniteSS ==
    pc = "filter" =>
        \A i \in 1..Len(result_df.rows) : Column(result_df, "SS_optimal")[i] # NaN

\* C4: once all five roles are populated and sales_history carries an
\* accepted alias, nothing aborts the run: the only aborts are
\* IncompleteDatasetSet and MissingJoinKey.
C4_OnlyTwoAborts ==
    /\ error \in {"", "IncompleteDatasetSet", "MissingJoinKey"}
    /\ (AllLoaded /\ PastReadiness /\ pc # "resolve" /\ join_key # "") =>
          pc \notin {"stopped", "crashed"}

\* C7: a non-key column X that an auxiliary table shares with the accumulated
\* table is in the result as X plus the step's suffix, and the accumulated
\* table's columns stay under their own names with their own values.  Stated
\* for the columns of sales_history, which are in the accumulated table from
\* the start.
C7_CollisionRenaming ==
    (pc \in {"merge", "button"} /\ merges >= 1) =>
        LET sales == dataframes["sales_history"]
        IN /\ \A c \in ColSet(sales) :
                 /\ c \in ColSet(df_working)
                 /\ Len(df_working.rows) = Len(sales.rows) =>
                       Column(df_working, c) = Column(sales, c)
           /\ \A k \in 1..merges :
                 \A X \in (ColSet(dataframes[MergeOrder[k].role]) \cap ColSet(sales))
                             \ {join_key} :
                     (X \o MergeOrder[k].suffix) \in ColSet(df_working)

\* the search term taken literally, compared without case
LiteralContains(text, term) ==
    \E off \in 0..(Len(text) - Len(term)) :
        \A j \in 1..Len(term) : Lower(term[j]) = Lower(text[off + j])

\* C10: the filter keeps exactly the rows of the result view, in order, whose
\* key contains the search term as a literal substring, case-insensitively
\* (every row for the empty term), and whose SS_optimal >= the threshold, for
\* every search term.
C10_FilterLiteral ==
    (result_view.loaded /\ pc # "filter") =>
        LET keys == Column(result_view, join_key)
            opt == Column(result_view, "SS_optimal")
        IN /\ pc = "done"
           /\ filtered.cols = result_view.cols
           /\ filtered.rows =
                 SelectRows(result_view.rows,
                            [i \in 1..Len(result_view.rows) |->
                                /\ LiteralContains(AsStr(keys[i]), search_term)
                                /\ opt[i] # NaN
                                /\ opt[i] >= min_ss_filter * SSUnit],
                            1)

====
